---- MODULE Spec2Model ----
(***************************************************************************)
(* ThicketDB (src/thicket_db.py): the plant database of the Thicket        *)
(* add-on, its label lookup and its parallel build.  One coordinator runs  *)
(* build(); every asset file is parsed by a subprocess of its own whose    *)
(* standard output the coordinator reads with communicate().               *)
(***************************************************************************)
EXTENDS Naturals, Sequences, FiniteSets, TLC

\* Largest number of asset files glob() finds in the models directory.
MaxFiles == 3
\* Largest value os.cpu_count() answers; 0 stands for None (unknown).
MaxCpu == 2
\* num_jobs when os.cpu_count() is None.
DefaultJobs == 4
\* Largest number of asset files in the runs that vary the schedule alone.
MaxSchedFiles == 5
\* The schema version this implementation writes and the least it reads.
SCHEMA_VERSION == 2
\* Largest schema version a database file is given.
MaxSchema == 3
\* Largest number of enumerations of the store that are under way at once.
MaxIters == 2

VARIABLES
    pc,           \* where the coordinator is in build()
    db_models,    \* self._db["models"]: model name -> model record
    db_labels,    \* self._db["labels"]: key -> (locale -> text)
    disk,         \* the document in the file db_filename
    saves,        \* how many times save() wrote the file
    model_files,  \* the list glob() answered, minus the files popped so far
    num_models,   \* len(model_files) when build started
    num_jobs,     \* the worker cap
    jobs,         \* deque of launched jobs not yet taken by popleft()
    job,          \* the job communicate() is waiting for (0: none)
    f,            \* the local variable f of build(): the file popped last
    status,       \* per asset file, the state of its subprocess
    adapter,      \* per asset file, what its subprocess does (environment)
    cpu,          \* what os.cpu_count() answers (0: None)
    launched,     \* history: the files in the order they were launched
    collected,    \* history: the files in the order communicate() returned
    log,          \* the logger.error records of the worker loop
    report,       \* the pair of the closing "Processed %d/%d models" line
    prev,         \* history: the document the store held before build()
    self_locale,  \* self.locale
    q_key,        \* get_label: the key asked for
    q_locale,     \* get_label: the locale asked for
    q_result,     \* get_label: what it returned
    db_order,     \* the keys of self._db["models"] in insertion order
    db_meta,      \* whether self._db is set, and its info.schema_version
    file_meta,    \* the file db_filename: missing, corrupt or a document, the
                  \* schema version and the key order of the document
    opened,       \* how ThicketDB(db_filename, create=...) ended
    g_result,     \* get_model: the arguments and what it returned
    iters,        \* the DBIter objects made so far
    a_result      \* add_model: how it ended

vars == <<pc, db_models, db_labels, disk, saves, model_files, num_models,
          num_jobs, jobs, job, f, status, adapter, cpu, launched, collected,
          log, report, prev, self_locale, q_key, q_locale, q_result,
          db_order, db_meta, file_meta, opened, g_result, iters, a_result>>

buildVars == <<pc, db_models, db_labels, disk, saves, model_files, num_models,
               num_jobs, jobs, job, f, status, adapter, cpu, launched,
               collected, log, report, prev, db_order, db_meta, file_meta>>

labelVars == <<self_locale, q_key, q_locale, q_result>>

storeVars == <<opened, g_result, iters, a_result>>

----------------------------------------------------------------------------
(* Python dictionaries and strings *)

EmptyDict == << >>

\* d[k] = v
dict_set(d, k, v) ==
    [x \in (DOMAIN d) \cup {k} |-> IF x = k THEN v ELSE d[x]]

\* d.update(e): every key of e takes e's value, whole
dict_update(d, e) ==
    [x \in (DOMAIN d) \cup (DOMAIN e) |-> IF x \in DOMAIN e THEN e[x] ELSE d[x]]

\* A dict keeps its keys in the order they were first set: the key order
\* after an assignment that made the dict d.
keys_after(order, d) ==
    IF \A k \in DOMAIN d : \E i \in 1..Len(order) : order[i] = k
    THEN order
    ELSE Append(order, CHOOSE k \in DOMAIN d : \A i \in 1..Len(order) : order[i] # k)

\* the orders in which a document may list the keys of a dict: json.load
\* keeps the order of the file
RECURSIVE KeyOrders(_)
KeyOrders(keys) ==
    IF keys = {}
    THEN {<< >>}
    ELSE UNION {{<< k >> \o rest : rest \in KeyOrders(keys \ {k})} : k \in keys}

\* an optional argument: << >> is None, << x >> is the value x
None == << >>
Some(x) == << x >>

\* get_model has not been called
NotAsked == [asked |-> FALSE, filepath |-> None, name |-> None,
             raised |-> "none", found |-> FALSE, view |-> << >>]

\* A locale is a string, kept as its sequence of characters.
en == <<"e", "n">>
de == <<"d", "e">>
fr == <<"f", "r">>
fi == <<"f", "i">>
fil == <<"f", "i", "l">>
enUS == <<"e", "n", "-", "U", "S">>
en_US == <<"e", "n", "_", "U", "S">>
enGB == <<"e", "n", "-", "G", "B">>
en_GB == <<"e", "n", "_", "G", "B">>
filPH == <<"f", "i", "l", "-", "P", "H">>

\* locale.replace("_", "-")
str_replace(s) == [i \in 1..Len(s) |-> IF s[i] = "_" THEN "-" ELSE s[i]]

\* locale[:2]
str_prefix2(s) == SubSeq(s, 1, IF Len(s) < 2 THEN Len(s) ELSE 2)

----------------------------------------------------------------------------
(* The subprocess of one asset file *)

\* What a subprocess writes to its standard output: nothing, text that is
\* no JSON, or a JSON object with some of the keys "model" and "labels".
Stdout(text, keys, name, labels) ==
    [text |-> text, keys |-> keys, name |-> name, labels |-> labels]

RecordA  == Stdout("object", {"model", "labels"}, "a",
                   ("a" :> (en :> "A")) @@ ("s" :> ((en :> "S") @@ (de :> "T"))))
RecordB  == Stdout("object", {"model", "labels"}, "b",
                   ("b" :> (en :> "B")) @@ ("s" :> (en :> "S2")))
RecordA2 == Stdout("object", {"model", "labels"}, "a", ("a" :> (de :> "A2")))
NoOutput == Stdout("empty", {}, "", EmptyDict)
BadJson  == Stdout("malformed", {}, "", EmptyDict)
BadBytes == Stdout("undecodable", {}, "", EmptyDict)
ErrorObj == Stdout("object", {}, "", EmptyDict)
NoLabels == Stdout("object", {"model"}, "b", EmptyDict)

Outputs ==
    {RecordA, RecordB, RecordA2, NoOutput, BadJson, BadBytes, ErrorObj, NoLabels}

\* A subprocess either exits with its output written or never terminates.
Behaviours ==
    [terminates : {TRUE}, out : Outputs] \cup [terminates : {FALSE}, out : {NoOutput}]

\* The documents a database file may hold before the build.
PrevDBs ==
    { [models |-> EmptyDict, labels |-> EmptyDict],
      [models |-> ("old" :> [name |-> "old", filepath |-> 0])
                  @@ ("a" :> [name |-> "a", filepath |-> 0]),
       labels |-> ("old" :> (en :> "O")) @@ ("a" :> (en :> "A0"))] }

----------------------------------------------------------------------------
(* ThicketDB.initialize and ThicketDB.save *)

\* (variant) initialize() that leaves the tables as they are
initialize_keep(db) == db

\* initialize(): the document is replaced by one with empty tables
initialize(db) == [models |-> EmptyDict, labels |-> EmptyDict]

\* update_labels(labels)
update_labels(table, labels) == dict_update(table, labels)

\* model_count()
model_count(models) == Cardinality(DOMAIN models)

----------------------------------------------------------------------------
(* ThicketDB.get_label *)

\* the locale the lookup uses: the argument with "_" replaced by "-", or
\* self.locale when the argument is None or empty
lookup_locale(self_loc, locale) ==
    IF locale # << >> THEN str_replace(locale) ELSE self_loc

\* the body of the try statement: KeyError when key is not in the table
get_label_try(labels, loc, key) ==
    IF key \notin DOMAIN labels
    THEN [raised |-> "KeyError", value |-> ""]
    ELSE IF loc \in DOMAIN labels[key]
    THEN [raised |-> "none", value |-> labels[key][loc]]
    ELSE IF str_prefix2(loc) \in DOMAIN labels[key]
    THEN [raised |-> "none", value |-> labels[key][str_prefix2(loc)]]
    ELSE [raised |-> "none", value |-> key]

\* (variant) get_label without its except clause
get_label_nocatch(labels, self_loc, key, locale) ==
    get_label_try(labels, lookup_locale(self_loc, locale), key)

\* get_label(key, locale): except KeyError: return key
get_label(labels, self_loc, key, locale) ==
    LET r == get_label_try(labels, lookup_locale(self_loc, locale), key)
    IN  IF r.raised = "KeyError" THEN [raised |-> "none", value |-> key] ELSE r

----------------------------------------------------------------------------
(* ThicketDB.build *)

\* num_jobs = os.cpu_count(), 4 if that is None (or 0)
NumJobs(c) == IF c = 0 THEN DefaultJobs ELSE c

\* (variant) the inner loop lets one job too many through
CanLaunch_offbyone(q, files, n) == Len(q) <= n /\ Len(files) > 0

\* the condition of the inner loop "Keep up to num_jobs jobs running"
CanLaunch(q, files, n) == Len(q) < n /\ Len(files) > 0

\* (variant) a worker loop that looks at the pending files alone
LoopCondition_filesonly(q, files) == Len(files) > 0

\* the condition of the worker loop
LoopCondition(q, files) == Len(files) > 0 \/ Len(q) > 0

\* (variant) model_files.pop(0): the first element leaves the list
list_pop_first(files) == [item |-> Head(files), rest |-> Tail(files)]

\* model_files.pop(): the last element leaves the list
list_pop(files) == [item |-> files[Len(files)], rest |-> SubSeq(files, 1, Len(files) - 1)]

\* (variant) jobs.pop(): the newest job leaves the deque
popleft_newest(q) == [item |-> q[Len(q)], rest |-> SubSeq(q, 1, Len(q) - 1)]

\* jobs.popleft(): the oldest job leaves the deque
popleft(q) == [item |-> Head(q), rest |-> Tail(q)]

\* (variant) a wait that gives up on a subprocess that is still running
CommunicateReturns_early(st) == st \in {"running", "exited"}

\* job.communicate() returns once the subprocess has exited
CommunicateReturns(st) == st = "exited"

\* The exception json.loads(outs) raises on the bytes of a subprocess: bytes
\* that are no UTF-8, UTF-16 or UTF-32 text fail to decode, empty and
\* malformed text fail to parse ("none": a JSON value is returned).
json_loads_raises(outs) ==
    IF outs.text = "undecodable" THEN "UnicodeDecodeError"
    ELSE IF outs.text \in {"empty", "malformed"} THEN "JSONDecodeError"
    ELSE "none"

\* The body of the try statement for the output outs of the job of `file`:
\* the tables it leaves and the exception it raised ("none": it ran through).
TryMerge(models, labels, outs, file) ==
    IF json_loads_raises(outs) # "none"
    THEN [models |-> models, labels |-> labels, raised |-> json_loads_raises(outs)]
    ELSE IF "model" \notin outs.keys
    THEN [models |-> models, labels |-> labels, raised |-> "KeyError"]
    ELSE LET m2 == dict_set(models, outs.name, [name |-> outs.name, filepath |-> file])
         IN  IF "labels" \notin outs.keys
             THEN [models |-> m2, labels |-> labels, raised |-> "KeyError"]
             ELSE [models |-> m2, labels |-> update_labels(labels, outs.labels),
                   raised |-> "none"]

\* (variant) no except clause: every exception leaves build()
Caught_nothing(raised) == FALSE

\* except json.decoder.JSONDecodeError
Caught(raised) == raised = "JSONDecodeError"

\* The store is open on a document of `docs`; the models directory holds at
\* most `maxfiles` asset files whose subprocesses behave as `behaviours` allow.
InitWith(maxfiles, behaviours, docs) ==
    /\ pc = "start"
    /\ prev \in docs
    /\ db_models = prev.models
    /\ db_labels = prev.labels
    /\ disk = prev
    /\ saves = 0
    /\ model_files = << >>
    /\ num_models = 0
    /\ num_jobs = 0
    /\ jobs = << >>
    /\ job = 0
    /\ f = 0
    /\ \E m \in 0..maxfiles :
         /\ adapter \in [1..m -> behaviours]
         /\ status = [i \in 1..m |-> "idle"]
    /\ cpu \in 0..MaxCpu
    /\ launched = << >>
    /\ collected = << >>
    /\ log = << >>
    /\ report = << >>
    /\ db_order \in KeyOrders(DOMAIN prev.models)
    /\ db_meta = [set |-> TRUE, schema_version |-> SCHEMA_VERSION]
    /\ file_meta = [kind |-> "document", schema_version |-> SCHEMA_VERSION,
                    order |-> db_order]

\* The store has been opened; none of its queries has been called.
InitStore ==
    /\ opened = [state |-> "open", create |-> FALSE, raised |-> "none", log |-> << >>]
    /\ g_result = NotAsked
    /\ iters = << >>
    /\ a_result = [called |-> FALSE, raised |-> "none"]

\* __init__ keeps the locale it is given with "_" replaced by "-"; no label
\* has been asked for yet.
InitLocale(locales) ==
    /\ \E l \in locales : self_locale = str_replace(l)
    /\ q_key = ""
    /\ q_locale = << >>
    /\ q_result = [raised |-> "unasked", value |-> ""]

Init == InitWith(MaxFiles, Behaviours, PrevDBs) /\ InitLocale({enUS}) /\ InitStore

\* build() up to the worker loop: lines 211-223
Build ==
    /\ pc = "start"
    /\ LET fresh == initialize([models |-> db_models, labels |-> db_labels])
       IN  /\ db_models' = fresh.models
           /\ db_labels' = fresh.labels
    /\ model_files' = [i \in 1..Len(adapter) |-> i]
    /\ num_models' = Len(adapter)
    /\ num_jobs' = NumJobs(cpu)
    /\ jobs' = << >>
    /\ pc' = "loop"
    /\ db_order' = << >>
    /\ db_meta' = [set |-> TRUE, schema_version |-> SCHEMA_VERSION]
    /\ UNCHANGED <<disk, saves, job, f, status, adapter, cpu, launched,
                   collected, log, report, prev, file_meta>>

\* one round of the inner loop: pop a file, start its subprocess
Launch ==
    /\ pc = "loop"
    /\ LoopCondition(jobs, model_files)
    /\ CanLaunch(jobs, model_files, num_jobs)
    /\ LET p == list_pop(model_files)
       IN  /\ f' = p.item
           /\ model_files' = p.rest
           /\ status' = [status EXCEPT ![p.item] = "running"]
           /\ jobs' = Append(jobs, p.item)
           /\ launched' = Append(launched, p.item)
    /\ UNCHANGED <<pc, db_models, db_labels, disk, saves, num_models, num_jobs,
                   job, adapter, cpu, collected, log, report, prev, db_order,
                   db_meta, file_meta>>

\* job = jobs.popleft(), and the coordinator enters job.communicate()
Wait ==
    /\ pc = "loop"
    /\ LoopCondition(jobs, model_files)
    /\ ~CanLaunch(jobs, model_files, num_jobs)
    /\ LET p == popleft(jobs)
       IN  /\ job' = p.item
           /\ jobs' = p.rest
    /\ pc' = "communicate"
    /\ UNCHANGED <<db_models, db_labels, disk, saves, model_files, num_models,
                   num_jobs, f, status, adapter, cpu, launched, collected, log,
                   report, prev, db_order, db_meta, file_meta>>

\* communicate() returns and the try statement runs: lines 235-242
Collect ==
    /\ pc = "communicate"
    /\ CommunicateReturns(status[job])
    /\ LET r == TryMerge(db_models, db_labels, adapter[job].out, job)
       IN  /\ db_models' = r.models
           /\ db_labels' = r.labels
           /\ db_order' = keys_after(db_order, r.models)
           /\ log' = IF Caught(r.raised)
                     THEN Append(log, [msg |-> "JSONDecodeError", named |-> f, job |-> job])
                     ELSE log
           /\ pc' = IF r.raised = "none" \/ Caught(r.raised) THEN "loop" ELSE "raised"
    /\ collected' = Append(collected, job)
    /\ job' = 0
    /\ UNCHANGED <<disk, saves, model_files, num_models, num_jobs, jobs, f,
                   status, adapter, cpu, launched, report, prev, db_meta,
                   file_meta>>

\* after the worker loop: the two checks, save() and the closing line
Finish ==
    /\ pc = "loop"
    /\ ~LoopCondition(jobs, model_files)
    /\ log' = log
              \o (IF Len(model_files) > 0
                  THEN << [msg |-> "files remaining", named |-> 0, job |-> 0] >>
                  ELSE << >>)
              \o (IF Len(jobs) > 0
                  THEN << [msg |-> "jobs still running", named |-> 0, job |-> 0] >>
                  ELSE << >>)
    /\ disk' = [models |-> db_models, labels |-> db_labels]
    /\ file_meta' = [kind |-> "document", schema_version |-> db_meta.schema_version,
                     order |-> db_order]
    /\ saves' = saves + 1
    /\ report' = << model_count(db_models), num_models >>
    /\ pc' = "done"
    /\ UNCHANGED <<db_models, db_labels, model_files, num_models, num_jobs, jobs,
                   job, f, status, adapter, cpu, launched, collected, prev,
                   db_order, db_meta>>

\* the subprocess of file i exits, its output complete
WorkerExit(i) ==
    /\ i \in DOMAIN status
    /\ status[i] = "running"
    /\ adapter[i].terminates
    /\ status' = [status EXCEPT ![i] = "exited"]
    /\ UNCHANGED <<pc, db_models, db_labels, disk, saves, model_files, num_models,
                   num_jobs, jobs, job, f, adapter, cpu, launched, collected,
                   log, report, prev, db_order, db_meta, file_meta>>

Coordinator == Build \/ Launch \/ Wait \/ Collect \/ Finish

Next ==
    \/ Build /\ UNCHANGED <<labelVars, storeVars>>
    \/ Launch /\ UNCHANGED <<labelVars, storeVars>>
    \/ Wait /\ UNCHANGED <<labelVars, storeVars>>
    \/ Collect /\ UNCHANGED <<labelVars, storeVars>>
    \/ Finish /\ UNCHANGED <<labelVars, storeVars>>
    \/ \E i \in DOMAIN adapter : WorkerExit(i) /\ UNCHANGED <<labelVars, storeVars>>

Spec == Init /\ [][Next]_vars

\* The coordinator is one running thread and every subprocess is scheduled
\* by the operating system: each takes its next step when it has one.
FairSpec ==
    /\ Spec
    /\ WF_vars(Coordinator /\ UNCHANGED <<labelVars, storeVars>>)
    /\ \A i \in 1..MaxFiles : WF_vars(WorkerExit(i) /\ UNCHANGED <<labelVars, storeVars>>)

\* The same program on more asset files, the subprocesses told apart only by
\* what they do to the schedule: a good record, an uncaught failure, a hang.
SchedBehaviours ==
    { [terminates |-> TRUE, out |-> RecordA],
      [terminates |-> TRUE, out |-> ErrorObj],
      [terminates |-> FALSE, out |-> NoOutput] }

SchedInit ==
    InitWith(MaxSchedFiles, SchedBehaviours, PrevDBs) /\ InitLocale({enUS}) /\ InitStore

SchedSpec == SchedInit /\ [][Next]_vars

----------------------------------------------------------------------------
(* Properties of the build *)

\* the jobs launched and not yet collected
InFlight == Len(launched) - Len(collected)

\* C1: at every instant the number of launched-but-not-yet-collected jobs is
\* at most the worker cap: the processing-unit count, or 4 when it is unknown.
C1_BoundedInFlight ==
    /\ Len(collected) <= Len(launched)
    /\ InFlight <= (IF cpu = 0 THEN 4 ELSE cpu)

\* C1 witness: the cap is reached with files still pending, once with a known
\* processing-unit count and (W1b) once with the fallback of 4.
C1_Witness ==
    /\ cpu = 2
    /\ InFlight = 2
    /\ Len(model_files) > 0
    /\ pc = "communicate"

C1_WitnessFallback ==
    /\ cpu = 0
    /\ InFlight = 4
    /\ Len(model_files) > 0

\* C2: jobs are collected in exactly the order they were launched: what has
\* been collected so far is a prefix of the launch order.
C2_CollectedInLaunchOrder ==
    /\ Len(collected) <= Len(launched)
    /\ \A i \in 1..Len(collected) : collected[i] = launched[i]

\* C2 witness: an earlier job has been collected and the coordinator waits for
\* the next oldest, still running, while a job launched after it has exited.
C2_Witness ==
    /\ pc = "communicate"
    /\ Len(collected) >= 1
    /\ status[job] = "running"
    /\ adapter[job].terminates
    /\ \E i \in 1..Len(jobs) : status[jobs[i]] = "exited"

\* the number of asset files of the build
M == Len(adapter)

\* the subprocess of file i exits with output json.loads() cannot parse
Unparseable(i) ==
    adapter[i].terminates
        /\ adapter[i].out.text \in {"empty", "malformed", "undecodable"}

\* the subprocess of file i exits with text that is no JSON value
NotJsonText(i) ==
    adapter[i].terminates /\ adapter[i].out.text \in {"empty", "malformed"}

\* the subprocess of file i exits with a {"model": ..., "labels": ...} object
WellFormed(i) ==
    /\ adapter[i].terminates
    /\ adapter[i].out.text = "object"
    /\ adapter[i].out.keys = {"model", "labels"}

AllTerminate == \A i \in DOMAIN adapter : adapter[i].terminates

\* exactly one asset file is unparseable, the others are well-formed records
\* with pairwise distinct model names
ExactlyOneUnparseable ==
    /\ Cardinality({i \in DOMAIN adapter : Unparseable(i)}) = 1
    /\ \A i \in DOMAIN adapter : Unparseable(i) \/ WellFormed(i)
    /\ \A i, j \in DOMAIN adapter :
         (WellFormed(i) /\ WellFormed(j) /\ i # j)
             => adapter[i].out.name # adapter[j].out.name

\* C3: with exactly one unparseable result among M, the build never leaves the
\* worker loop by an exception, and when it is done every job was collected,
\* the database holds M-1 models, it was saved and the report is (M-1, M).
C3_PartialFailureContained ==
    ExactlyOneUnparseable =>
        /\ pc # "raised"
        /\ pc = "done" =>
             /\ report = << M - 1, M >>
             /\ Cardinality(DOMAIN db_models) = M - 1
             /\ Len(collected) = M
             /\ saves = 1
             /\ disk.models = db_models

\* C3 holds when the unparseable result is text that is no JSON value: the
\* JSONDecodeError is caught and the build goes on.
PartialFailureOfTextContained ==
    (\A i \in DOMAIN adapter : Unparseable(i) => NotJsonText(i))
        => C3_PartialFailureContained

\* a finished build of three files whose second file, launched between the
\* other two, was the unparseable one.
PartialFailureOfTextWitness ==
    /\ ExactlyOneUnparseable
    /\ M = 3
    /\ NotJsonText(2)
    /\ pc = "done"
    /\ Len(log) = 1

\* C4: every output that is not a {"model", "labels"} object, a JSON object
\* without these keys included, is a failure of its job alone: the exception
\* never leaves build(), and the build collects every job and saves.
C4_EveryBadOutputContained ==
    AllTerminate =>
        /\ pc # "raised"
        /\ pc = "done" => (Len(collected) = M /\ saves = 1)

\* C5: when every subprocess terminates, build() eventually leaves the worker
\* loop, saves the database once and reports the tally.
C5_BuildTerminates ==
    AllTerminate => <>(pc = "done" /\ saves = 1 /\ Len(report) = 2)

\* The builds of C5 in which every output is a full record or text that is
\* no JSON value do terminate: the uncaught exceptions of C3 and C4 are all
\* that stops the others.
BuildTerminatesWhenParsedOrCaught ==
    (\A i \in DOMAIN adapter : NotJsonText(i) \/ WellFormed(i))
        => <>(pc = "done" /\ saves = 1 /\ Len(report) = 2)

\* the asset files whose result the build merges
Successful == {i \in DOMAIN adapter : WellFormed(i)}

\* no model entry and no label entry of the previous document is in the tables
NoPrevSurvives ==
    /\ \A n \in (DOMAIN db_models) \cap (DOMAIN prev.models) :
         db_models[n] # prev.models[n]
    /\ \A k \in (DOMAIN db_labels) \cap (DOMAIN prev.labels) :
         db_labels[k] # prev.labels[k]

\* the tables hold the entries of the successful results and nothing else
ExactlyContributed ==
    /\ DOMAIN db_models = {adapter[i].out.name : i \in Successful}
    /\ \A n \in DOMAIN db_models :
         \E i \in Successful :
            adapter[i].out.name = n /\ db_models[n] = [name |-> n, filepath |-> i]
    /\ DOMAIN db_labels = UNION {DOMAIN adapter[i].out.labels : i \in Successful}
    /\ \A k \in DOMAIN db_labels :
         \E i \in Successful :
            k \in DOMAIN adapter[i].out.labels /\ db_labels[k] = adapter[i].out.labels[k]

\* C6: a build is a full replace: once build() has started no entry of the
\* previous contents is left in the tables, and when it is done the tables and
\* the saved document hold exactly what the successful results contributed.
C6_FullReplace ==
    /\ pc # "start" => NoPrevSurvives
    /\ pc = "done" =>
         /\ ExactlyContributed
         /\ disk = [models |-> db_models, labels |-> db_labels]

\* C6 witness: the store held models and labels, one of them under the name a
\* result of this build uses again, and the build is done with a failed job.
C6_Witness ==
    /\ prev.models # EmptyDict
    /\ prev.labels # EmptyDict
    /\ pc = "done"
    /\ "a" \in DOMAIN db_models
    /\ \E i \in DOMAIN adapter : Unparseable(i)

\* C6, the case of a build whose every job fails, on a store that held entries
C6_WitnessAllFail ==
    /\ prev.models # EmptyDict
    /\ pc = "done"
    /\ M = 2
    /\ Successful = {}

\* C7: the tables change, after initialize(), only in a step of the coordinator
\* that collects the one job it waited for, whose subprocess has exited; no
\* step of a subprocess touches them, and every collected job had exited.
C7_MergeOnlyCompleted ==
    /\ [](\A i \in 1..Len(collected) : status[collected[i]] = "exited")
    /\ [][ (pc # "start" /\ (db_models' # db_models \/ db_labels' # db_labels))
             => /\ pc = "communicate"
                /\ status[job] = "exited"
                /\ status' = status
                /\ collected' = Append(collected, job) ]_vars

\* C7 witness: a result has been merged, the coordinator waits for a job that
\* still runs, and a younger job has exited with its result not merged.
C7_Witness ==
    /\ db_models # EmptyDict
    /\ pc = "communicate"
    /\ status[job] = "running"
    /\ \E i \in 1..Len(jobs) : status[jobs[i]] = "exited" /\ WellFormed(jobs[i])

\* The build that runs the jobs one at a time, file i first and file 1 last:
\* the tables it ends with and whether an exception left it.
RECURSIVE SequentialBuild(_, _, _)
SequentialBuild(i, models, labels) ==
    IF i = 0
    THEN [models |-> models, labels |-> labels, raised |-> FALSE]
    ELSE LET r == TryMerge(models, labels, adapter[i].out, i)
         IN  IF r.raised # "none" /\ ~Caught(r.raised)
             THEN [models |-> r.models, labels |-> r.labels, raised |-> TRUE]
             ELSE SequentialBuild(i - 1, r.models, r.labels)

\* C8: the final tables and the report are a function of the file list and
\* the outputs alone: whatever the order in which the subprocesses exit, and
\* whatever the cap, they are those of the one-at-a-time build.
C8_DeterministicMerge ==
    pc \in {"done", "raised"} =>
        LET e == SequentialBuild(M, EmptyDict, EmptyDict)
        IN  /\ db_models = e.models
            /\ db_labels = e.labels
            /\ e.raised <=> (pc = "raised")
            /\ pc = "done" => report = << Cardinality(DOMAIN e.models), M >>

\* C8 witness: two assets launched together return the same model name and
\* the same label key, and the build is done.
C8_Witness ==
    /\ pc = "done"
    /\ cpu = 2
    /\ M = 2
    /\ adapter[1].out = RecordA2
    /\ adapter[2].out = RecordA
    /\ db_labels["a"] = (de :> "A2")

\* the oldest in-flight job is a subprocess that never terminates: the
\* coordinator is in its communicate(), or it is the head of the deque
Stalled ==
    \/ pc = "communicate" /\ ~adapter[job].terminates
    \/ pc = "loop" /\ Len(jobs) > 0 /\ ~adapter[Head(jobs)].terminates

\* C9: once the oldest in-flight job is one that never terminates, it stays
\* the oldest for ever: nothing more is collected or merged and the database
\* is never saved, whatever the younger jobs do.
C9_HungOldestStallsBuild ==
    /\ [](Stalled => saves = 0)
    /\ [][ Stalled => /\ Stalled'
                      /\ collected' = collected
                      /\ db_models' = db_models
                      /\ db_labels' = db_labels
                      /\ saves' = saves
                      /\ disk' = disk ]_vars

\* C9 witness: the build waits for a hung job while every job launched after
\* it has exited and a file is still pending.
C9_Witness ==
    /\ pc = "communicate"
    /\ Stalled
    /\ Len(jobs) >= 1
    /\ \A i \in 1..Len(jobs) : status[jobs[i]] = "exited"
    /\ Len(model_files) > 0

----------------------------------------------------------------------------
(* Label lookup on a store that is open and not being built *)

\* the locale -> text dictionaries a key may have
LocaleDicts ==
    { (enUS :> "A") @@ (en :> "B"),
      (fil :> "F"),
      (fi :> "S") @@ (fil :> "F"),
      (en :> ""),
      (de :> "D"),
      EmptyDict }

\* the label tables of the documents the store may be open on
LabelTables ==
    {EmptyDict}
      \cup {("oak" :> d) : d \in LocaleDicts}
      \cup {("oak" :> d) @@ ("s" :> (en :> "Summer")) : d \in LocaleDicts}

LabelDocs == {[models |-> EmptyDict, labels |-> t] : t \in LabelTables}

\* the keys and the locales a caller asks for; << >> is None
QueryKeys == {"oak", "s", "elm"}
QueryLocales == {<< >>, en, en_US, enUS, enGB, fr, de, fil, filPH, <<"e">>}

\* a caller asks for the label of key in locale; on a store without
\* self._db the read of line 179 raises AttributeError, which the except
\* clause of line 184 does not catch
GetLabel(key, locale) ==
    /\ q_key' = key
    /\ q_locale' = locale
    /\ q_result' = IF db_meta.set
                   THEN get_label(db_labels, self_locale, key, locale)
                   ELSE [raised |-> "AttributeError", value |-> ""]
    /\ UNCHANGED <<buildVars, self_locale, storeVars>>

\* The store the constructor returns for a file that holds text that is no
\* JSON value: the failure is logged and self._db does not exist.
InitUnsetStore ==
    /\ pc = "start"
    /\ prev = [models |-> EmptyDict, labels |-> EmptyDict]
    /\ disk = prev
    /\ file_meta = [kind |-> "corrupt", schema_version |-> 0, order |-> << >>]
    /\ db_models = EmptyDict
    /\ db_labels = EmptyDict
    /\ db_order = << >>
    /\ db_meta = [set |-> FALSE, schema_version |-> 0]
    /\ saves = 0
    /\ model_files = << >>
    /\ num_models = 0
    /\ num_jobs = 0
    /\ jobs = << >>
    /\ job = 0
    /\ f = 0
    /\ adapter = << >>
    /\ status = << >>
    /\ cpu \in 0..MaxCpu
    /\ launched = << >>
    /\ collected = << >>
    /\ log = << >>
    /\ report = << >>
    /\ \E create \in BOOLEAN :
         opened = [state |-> "open", create |-> create, raised |-> "none",
                   log |-> << "critical: JSONDecodeError" >>]
    /\ g_result = NotAsked
    /\ iters = << >>
    /\ a_result = [called |-> FALSE, raised |-> "none"]

LabelInit ==
    /\ \/ InitWith(0, Behaviours, LabelDocs) /\ InitStore
       \/ InitUnsetStore
    /\ InitLocale({enUS, en_GB, de})

LabelNext == \E key \in QueryKeys, locale \in QueryLocales : GetLabel(key, locale)

LabelSpec == LabelInit /\ [][LabelNext]_vars

\* the texts stored for q_key
StoredTexts ==
    IF q_key \in DOMAIN db_labels
    THEN {db_labels[q_key][l] : l \in DOMAIN db_labels[q_key]}
    ELSE {}

Asked == q_result.raised # "unasked"

\* a label was asked of a store that has a label table
AskedOfTable == Asked /\ db_meta.set

\* C10 as stated: for every label table, get_label never fails, never
\* returns an empty string and returns key itself whenever key has no entry
\* in the label table.
C10_NeverEmpty ==
    AskedOfTable =>
        /\ q_result.raised = "none"
        /\ q_result.value # ""
        /\ q_key \notin DOMAIN db_labels => q_result.value = q_key

\* C10 amended: for every label table, get_label never fails, returns key
\* itself whenever key has no entry, and otherwise returns key or a text
\* stored for key; so its result is empty only when key is empty or the text
\* stored for key is.
C10_KeyOrStoredText ==
    AskedOfTable =>
        /\ q_result.raised = "none"
        /\ q_key \notin DOMAIN db_labels => q_result.value = q_key
        /\ q_key \in DOMAIN db_labels => q_result.value \in StoredTexts \cup {q_key}
        /\ q_result.value = "" => (q_key = "" \/ "" \in StoredTexts)

\* C10 witness: a key with no entry was asked for in a table that has entries,
\* and the key came back.
C10_Witness ==
    /\ Asked
    /\ q_key = "elm"
    /\ q_locale = en_US
    /\ "oak" \in DOMAIN db_labels
    /\ q_result = [raised |-> "none", value |-> "elm"]

\* On the store without self._db every call of get_label fails.
GetLabelRaisesWithoutTable ==
    (Asked /\ ~db_meta.set) => q_result = [raised |-> "AttributeError", value |-> ""]

\* a label was asked of the store a file that is no JSON leaves
GetLabelRaisesWithoutTableWitness ==
    /\ Asked
    /\ ~db_meta.set
    /\ opened.state = "open"
    /\ q_key = "oak"

\* the places of the hyphens of a locale
Hyphens(s) == {i \in 1..Len(s) : s[i] = "-"}

\* the primary subtag of a locale: what stands before its first hyphen, or
\* the whole locale when it has none
PrimarySubtag(s) ==
    IF Hyphens(s) = {}
    THEN s
    ELSE SubSeq(s, 1, (CHOOSE i \in Hyphens(s) : \A j \in Hyphens(s) : i <= j) - 1)

\* the locale a query is answered for: the argument normalized, or self.locale
QueryLocale == IF q_locale # << >> THEN str_replace(q_locale) ELSE self_locale

\* C11: for a key in the label table get_label returns the text stored for
\* the normalized locale; failing that the text stored for the primary subtag
\* of the locale, whatever its length; failing that the key.
C11_PrimarySubtagFallback ==
    (Asked /\ q_key \in DOMAIN db_labels) =>
        LET d == db_labels[q_key]
            expected == IF QueryLocale \in DOMAIN d
                        THEN d[QueryLocale]
                        ELSE IF PrimarySubtag(QueryLocale) \in DOMAIN d
                        THEN d[PrimarySubtag(QueryLocale)]
                        ELSE q_key
        IN  q_result = [raised |-> "none", value |-> expected]

\* The examples of C11, whose subtags have two letters, do hold: with the
\* labels {"en-US": "A", "en": "B"}, en-GB gives B, en-US and en_US give A
\* and fr gives the key.
C11_TwoLetterExamples ==
    (Asked /\ q_key = "oak" /\ "oak" \in DOMAIN db_labels
           /\ db_labels["oak"] = (enUS :> "A") @@ (en :> "B")) =>
        /\ q_locale = enGB => q_result.value = "B"
        /\ q_locale \in {enUS, en_US} => q_result.value = "A"
        /\ q_locale = fr => q_result.value = "oak"

----------------------------------------------------------------------------
(* More properties of the build *)

\* the union, locale by locale, of the stored labels and the incoming ones
LocaleUnion(table, incoming) ==
    [k \in (DOMAIN table) \cup (DOMAIN incoming) |->
        IF k \notin DOMAIN incoming THEN table[k]
        ELSE IF k \notin DOMAIN table THEN incoming[k]
        ELSE [l \in (DOMAIN table[k]) \cup (DOMAIN incoming[k]) |->
                IF l \in DOMAIN incoming[k] THEN incoming[k][l] ELSE table[k][l]]]

\* C14: merging the labels of a collected record is a union locale by locale:
\* a stored locale the record does not mention keeps its text, new locales
\* are added and the locales in both take the text of the record.
C14_LabelMergeIsLocaleUnion ==
    [][ (pc = "communicate" /\ collected' = Append(collected, job) /\ WellFormed(job))
          => db_labels' = LocaleUnion(db_labels, adapter[job].out.labels) ]_vars

\* What the merge does do, key by key: every key of the record takes the
\* locale dictionary of the record whole, the other keys keep theirs.
LabelMergeReplacesKeys ==
    [][ (pc = "communicate" /\ collected' = Append(collected, job) /\ WellFormed(job))
          => /\ DOMAIN db_labels' = (DOMAIN db_labels) \cup (DOMAIN adapter[job].out.labels)
             /\ \A k \in DOMAIN db_labels' :
                  db_labels'[k] = IF k \in DOMAIN adapter[job].out.labels
                                  THEN adapter[job].out.labels[k]
                                  ELSE db_labels[k] ]_vars

\* C17: the error logged for a job whose output does not parse names the file
\* that was passed to that job.
C17_LogNamesFailedFile ==
    \A i \in 1..Len(log) :
        log[i].msg = "JSONDecodeError" => log[i].named = log[i].job

\* C18: the first number of the report is the number of jobs whose result was
\* parsed and merged, the second the number of enumerated files.
C18_ReportCountsMergedJobs ==
    pc = "done" => report = << Cardinality(Successful), M >>

\* a sequence without a repeated element
NoRepeat(q) == \A i, j \in 1..Len(q) : q[i] = q[j] => i = j

\* the elements of a sequence
Elems(q) == {q[i] : i \in 1..Len(q)}

\* C19: no file is launched or collected twice; from the start of the loop
\* pending + in flight + collected is M; the loop is left for the save with
\* both queues empty and every file launched and collected, and neither of
\* the two errors after the loop is ever logged.
C19_EveryFileOnce ==
    /\ NoRepeat(launched)
    /\ NoRepeat(collected)
    /\ pc # "start" =>
         Len(model_files) + Len(jobs) + (IF pc = "communicate" THEN 1 ELSE 0)
             + Len(collected) = M
    /\ pc = "done" =>
         /\ model_files = << >>
         /\ jobs = << >>
         /\ Elems(launched) = 1..M
         /\ Elems(collected) = 1..M
    /\ \A i \in 1..Len(log) : log[i].msg = "JSONDecodeError"

\* C19 witness: a build of three files under a cap of two is done: the loop
\* topped the jobs up more than once.
C19_Witness ==
    /\ pc = "done"
    /\ M = 3
    /\ num_jobs = 2
    /\ Len(collected) = 3

\* C20 as stated: the files are launched in the order glob() listed them, and
\* the first listed is the first collected.
C20_LaunchedInListedOrder ==
    /\ \A i \in 1..Len(launched) : launched[i] = i
    /\ Len(collected) >= 1 => collected[1] = 1

\* C20 amended: the pending files form a stack: they are launched in the
\* reverse of the order glob() listed them, so the last listed file is the
\* first launched and the first collected.
C20_LaunchedInReverseOrder ==
    /\ \A i \in 1..Len(launched) : launched[i] = M + 1 - i
    /\ Len(collected) >= 1 => collected[1] = M

\* C20 witness: three files, all launched, the first of them collected
C20_Witness ==
    /\ M = 3
    /\ launched = << 3, 2, 1 >>
    /\ Len(collected) >= 1
    /\ collected[1] = 3

----------------------------------------------------------------------------
(* Opening a store and querying it: __init__, get_model, add_model, DBIter *)

\* (variant) a schema check that lets every version through
stale_never(version) == FALSE

\* the document is older than this implementation: line 129
stale(version) == version < SCHEMA_VERSION

\* A file is missing, holds bytes that are no UTF-8 text ("undecodable"),
\* holds text that is no JSON value ("corrupt"), or holds a document.
\* __init__(db_filename, create=create) on the file `file` whose document, if
\* it is one, holds the tables `doc`: the exception that leaves the
\* constructor ("none": it returns), what it logged, self._db (set or not),
\* and whether save() wrote the file.
open_db(file, doc, create) ==
    LET unset == [set |-> FALSE, schema_version |-> 0, models |-> EmptyDict,
                  labels |-> EmptyDict, order |-> << >>]
    IN
    IF file.kind = "missing"
    THEN IF create
         THEN [raised |-> "none", log |-> << >>, saved |-> TRUE,
               db |-> [set |-> TRUE, schema_version |-> SCHEMA_VERSION,
                       models |-> EmptyDict, labels |-> EmptyDict, order |-> << >>]]
         ELSE [raised |-> "FileNotFoundError", log |-> << >>, saved |-> FALSE,
               db |-> unset]
    ELSE IF file.kind = "undecodable"
    THEN [raised |-> "UnicodeDecodeError", log |-> << >>, saved |-> FALSE,
          db |-> unset]
    ELSE IF file.kind = "corrupt"
    THEN [raised |-> "none", log |-> << "critical: JSONDecodeError" >>,
          saved |-> FALSE, db |-> unset]
    ELSE LET loaded == [set |-> TRUE, schema_version |-> file.schema_version,
                        models |-> doc.models, labels |-> doc.labels,
                        order |-> file.order]
         IN  IF stale(file.schema_version)
             THEN [raised |-> "ThicketDBOldSchemaError",
                   log |-> << "warning: schema version" >>, saved |-> FALSE,
                   db |-> loaded]
             ELSE [raised |-> "none", log |-> << >>, saved |-> FALSE, db |-> loaded]

\* ThicketDB(db_filename, create=create)
Open(create) ==
    /\ opened.state = "new"
    /\ LET r == open_db(file_meta, disk, create)
       IN  /\ opened' = [state |-> IF r.raised = "none" THEN "open" ELSE "raised",
                         create |-> create, raised |-> r.raised, log |-> r.log]
           /\ db_meta' = [set |-> r.db.set, schema_version |-> r.db.schema_version]
           /\ db_models' = r.db.models
           /\ db_labels' = r.db.labels
           /\ db_order' = r.db.order
           /\ IF r.saved
              THEN /\ disk' = [models |-> r.db.models, labels |-> r.db.labels]
                   /\ file_meta' = [kind |-> "document",
                                    schema_version |-> r.db.schema_version,
                                    order |-> r.db.order]
                   /\ saves' = saves + 1
              ELSE UNCHANGED <<disk, file_meta, saves>>
    /\ UNCHANGED <<pc, model_files, num_models, num_jobs, jobs, job, f, status,
                   adapter, cpu, launched, collected, log, report, prev,
                   labelVars, g_result, iters, a_result>>

\* the truth value of an optional string argument: None and "" are false
Truthy(arg) == arg # None /\ arg # Some("")

\* the code points of the model and variant names of the documents below
CodePoints ==
    ("B" :> << 66 >>) @@ ("a" :> << 97 >>) @@ ("ab" :> << 97, 98 >>) @@
    ("b" :> << 98 >>) @@ ("old" :> << 111, 108, 100 >>) @@
    ("young" :> << 121, 111, 117, 110, 103 >>)

\* x < y on str: the first differing code point decides, a proper prefix is less
str_lt(x, y) ==
    LET u == CodePoints[x]
        v == CodePoints[y]
    IN  \E i \in 1..Len(v) :
            /\ i - 1 <= Len(u)
            /\ \A j \in 1..(i - 1) : u[j] = v[j]
            /\ \/ i = Len(u) + 1
               \/ i <= Len(u) /\ u[i] < v[i]

\* (variant) the items stay in the order of the dict
list_sort_unsorted(items) == items

\* items.sort(key=lambda model: model.name): ascending and stable
RECURSIVE list_sort(_)
list_sort(items) ==
    IF items = << >> THEN << >>
    ELSE LET rest == list_sort(SubSeq(items, 1, Len(items) - 1))
             x == items[Len(items)]
             k == Cardinality({i \in 1..Len(rest) : ~str_lt(x.name, rest[i].name)})
         IN  SubSeq(rest, 1, k) \o << x >> \o SubSeq(rest, k + 1, Len(rest))

\* DBSeason(db, name)
DBSeason(labels, self_loc, name) ==
    [name |-> name, label |-> get_label(labels, self_loc, name, None).value]

\* DBVariant(db, name, v_rec, model_preview)
DBVariant(labels, self_loc, name, v_rec, model_preview) ==
    [name |-> name,
     label |-> get_label(labels, self_loc, name, None).value,
     seasons |-> [i \in 1..Len(v_rec.seasons) |->
                     DBSeason(labels, self_loc, v_rec.seasons[i])],
     default_season |-> DBSeason(labels, self_loc, v_rec.default_season),
     preview |-> IF v_rec.preview = "" THEN model_preview ELSE v_rec.preview]

\* (variant) the keys of a dict in ascending string order
dict_keys_sorted(d) ==
    LET byName == list_sort([i \in 1..Len(d.order) |-> [name |-> d.order[i]]])
    IN  [i \in 1..Len(byName) |-> byName[i].name]

\* `for v in d`: the keys of a dict in the order they were set
dict_keys(d) == d.order

\* DBModel(db, name): the view of the model stored under the key name
DBModel(models, labels, self_loc, name) ==
    LET m_rec == models[name]
        keys == dict_keys(m_rec.variants)
    IN  [name |-> name, md5 |-> m_rec.md5, filepath |-> m_rec.filepath,
         label |-> get_label(labels, self_loc, name, None).value,
         variants |-> [i \in 1..Len(keys) |->
                          DBVariant(labels, self_loc, keys[i],
                                    m_rec.variants.recs[keys[i]], m_rec.preview)],
         default_variant |-> DBVariant(labels, self_loc, m_rec.default_variant,
                                       m_rec.variants.recs[m_rec.default_variant],
                                       m_rec.preview),
         preview |-> m_rec.preview]

\* the name get_model settles on: lines 188-195
get_model_name(models, order, filepath, name) ==
    LET n1 == IF Truthy(name) /\ name[1] \notin DOMAIN models THEN None ELSE name
        hits == {i \in 1..Len(order) : models[order[i]].filepath = filepath[1]}
    IN  IF n1 = None /\ Truthy(filepath) /\ hits # {}
        THEN Some(order[CHOOSE i \in hits : \A j \in hits : j <= i])
        ELSE n1

\* get_model(filepath, name): a view, or None (found is FALSE)
get_model(models, labels, order, self_loc, filepath, name) ==
    LET n == get_model_name(models, order, filepath, name)
    IN  IF Truthy(n)
        THEN [found |-> TRUE, view |-> << DBModel(models, labels, self_loc, n[1]) >>]
        ELSE [found |-> FALSE, view |-> << >>]

\* get_model reads self._db for a name that is given and not empty
\* (line 189) and, without a name, for a filepath that is given and not
\* empty (line 193); every other call returns None without reading it
get_model_reads_db(filepath, name) ==
    Truthy(name) \/ (name = None /\ Truthy(filepath))

\* a caller asks for a model; on a store without self._db the first read of
\* it raises AttributeError
GetModel(filepath, name) ==
    /\ opened.state = "open"
    /\ g_result' =
         IF db_meta.set \/ ~get_model_reads_db(filepath, name)
         THEN LET r == get_model(db_models, db_labels, db_order, self_locale,
                                 filepath, name)
              IN  [asked |-> TRUE, filepath |-> filepath, name |-> name,
                   raised |-> "none", found |-> r.found, view |-> r.view]
         ELSE [asked |-> TRUE, filepath |-> filepath, name |-> name,
               raised |-> "AttributeError", found |-> FALSE, view |-> << >>]
    /\ UNCHANGED <<buildVars, labelVars, opened, iters, a_result>>

\* what parse_model(filepath) returns for the asset files of a directory
ParsedAssets == {RecordA, RecordB}

\* add_model(filepath) for an asset parse_model() turns into m_rec: the
\* assignment of line 204 reads self._db and then m_rec["name"]
add_model(db_set, models, labels, m_rec, filepath) ==
    IF ~db_set
    THEN [models |-> models, labels |-> labels, raised |-> "AttributeError"]
    ELSE IF "name" \notin m_rec.keys
    THEN [models |-> models, labels |-> labels, raised |-> "KeyError"]
    ELSE [models |-> dict_set(models, m_rec.name,
                              [name |-> m_rec.name, filepath |-> filepath]),
          labels |-> update_labels(labels, m_rec.labels), raised |-> "none"]

\* a caller adds the model of one asset file
AddModel(m_rec, filepath) ==
    /\ opened.state = "open"
    /\ ~a_result.called
    /\ LET r == add_model(db_meta.set, db_models, db_labels, m_rec, filepath)
       IN  /\ a_result' = [called |-> TRUE, raised |-> r.raised]
           /\ db_models' = r.models
           /\ db_labels' = r.labels
           /\ db_order' = keys_after(db_order, r.models)
    /\ UNCHANGED <<pc, disk, saves, model_files, num_models, num_jobs, jobs, job,
                   f, status, adapter, cpu, launched, collected, log, report,
                   prev, db_meta, file_meta, labelVars, opened, g_result, iters>>

\* DBIter(db): a view of every model in dict order, sorted, and a cursor.
\* yielded and stopped record what __next__ has handed to the caller.
DBIter(models, labels, order, self_loc) ==
    [items |-> list_sort([i \in 1..Len(order) |->
                             DBModel(models, labels, self_loc, order[i])]),
     index |-> 0, yielded |-> << >>, stopped |-> FALSE]

\* DBIter.__next__
DBIter_next(it) ==
    IF it.index < Len(it.items)
    THEN [it EXCEPT !.index = @ + 1, !.yielded = Append(@, it.items[it.index + 1])]
    ELSE [it EXCEPT !.stopped = TRUE]

\* iter(db): a new enumeration starts (on a store without self._db the
\* constructor of DBIter raises and nothing changes)
Iter ==
    /\ opened.state = "open"
    /\ db_meta.set
    /\ Len(iters) < MaxIters
    /\ iters' = Append(iters, DBIter(db_models, db_labels, db_order, self_locale))
    /\ UNCHANGED <<buildVars, labelVars, opened, g_result, a_result>>

\* next(it) on the k-th enumeration
NextItem(k) ==
    /\ k \in 1..Len(iters)
    /\ ~iters[k].stopped
    /\ iters' = [iters EXCEPT ![k] = DBIter_next(@)]
    /\ UNCHANGED <<buildVars, labelVars, opened, g_result, a_result>>

\* a variant record; the young variant has no preview of its own
VariantRec(v, index) ==
    [index |-> index, seasons |-> << "summer" >>, default_season |-> "summer",
     preview |-> IF v = "young" THEN "" ELSE "v.png"]

\* the "variants" dict of a model record whose keys were set in this order
Variants(order) ==
    [order |-> order,
     recs |-> [v \in {order[i] : i \in 1..Len(order)} |->
                 VariantRec(v, (CHOOSE i \in 1..Len(order) : order[i] = v) - 1)]]

\* a model record with these variants; the first one is the default
RecV(name, filepath, order) ==
    [name |-> name, filepath |-> filepath, md5 |-> "d", preview |-> "m.png",
     default_variant |-> order[1], variants |-> Variants(order)]

\* model records of the documents a store is opened on
Rec(name, filepath) == RecV(name, filepath, << "old" >>)

\* the documents, each with the order of its "models" keys in the file
StoreDocs ==
    { [models |-> EmptyDict, labels |-> EmptyDict, order |-> << >>],
      [models |-> ("b" :> RecV("b", "p2", << "young", "old" >>)) @@
                  ("ab" :> RecV("ab", "p1", << "old", "young" >>)) @@
                  ("B" :> Rec("B", "p1")),
       labels |-> ("b" :> (en :> "Birch")) @@ ("young" :> (en :> "Young")),
       order |-> << "b", "ab", "B" >>],
      [models |-> ("a" :> Rec("a", "p1")) @@ ("b" :> Rec("b", "p1")),
       labels |-> ("a" :> (de :> "Ahorn")), order |-> << "a", "b" >>],
      [models |-> ("a" :> Rec("a", "p1")) @@ ("b" :> Rec("b", "p1")),
       labels |-> ("a" :> (de :> "Ahorn")), order |-> << "b", "a" >>] }

\* the arguments get_model is called with
QueryPaths == {None, Some(""), Some("p1"), Some("p2"), Some("p9")}
QueryNames == {None, Some(""), Some("a"), Some("B"), Some("old")}

\* No store object exists yet; the file is missing, is not JSON, or is a
\* document of some schema version.
StoreInit ==
    /\ pc = "start"
    /\ \/ /\ \E kind \in {"missing", "corrupt", "undecodable"} :
               file_meta = [kind |-> kind, schema_version |-> 0, order |-> << >>]
          /\ prev = [models |-> EmptyDict, labels |-> EmptyDict]
       \/ \E d \in StoreDocs, v \in 0..MaxSchema :
            /\ file_meta = [kind |-> "document", schema_version |-> v,
                            order |-> d.order]
            /\ prev = [models |-> d.models, labels |-> d.labels]
    /\ disk = prev
    /\ db_models = EmptyDict
    /\ db_labels = EmptyDict
    /\ db_order = << >>
    /\ db_meta = [set |-> FALSE, schema_version |-> 0]
    /\ saves = 0
    /\ model_files = << >>
    /\ num_models = 0
    /\ num_jobs = 0
    /\ jobs = << >>
    /\ job = 0
    /\ f = 0
    /\ adapter = << >>
    /\ status = << >>
    /\ cpu = 0
    /\ launched = << >>
    /\ collected = << >>
    /\ log = << >>
    /\ report = << >>
    /\ InitLocale({enUS})
    /\ opened = [state |-> "new", create |-> FALSE, raised |-> "none", log |-> << >>]
    /\ g_result = NotAsked
    /\ iters = << >>
    /\ a_result = [called |-> FALSE, raised |-> "none"]

StoreNext ==
    \/ \E create \in BOOLEAN : Open(create)
    \/ \E filepath \in QueryPaths, name \in QueryNames : GetModel(filepath, name)
    \/ Iter
    \/ \E k \in 1..MaxIters : NextItem(k)
    \/ \E m_rec \in ParsedAssets : AddModel(m_rec, "p3")

StoreSpec == StoreInit /\ [][StoreNext]_vars

----------------------------------------------------------------------------
(* Properties of opening and querying *)

\* the constructor has run on a file of this kind
OpenedOn(kind) == opened.state # "new" /\ file_meta.kind = kind

\* C12: opening a well-formed document whose schema_version is below
\* SCHEMA_VERSION fails with the stale-schema error whatever the create flag
\* and the rest of the document are; the file keeps its content and its
\* version, nothing is written and the loaded version is not raised.
C12_StaleSchemaAlwaysFails ==
    [][ ( /\ opened.state = "new"
          /\ opened'.state # "new"
          /\ file_meta.kind = "document"
          /\ file_meta.schema_version < SCHEMA_VERSION )
        => ( /\ opened'.state = "raised"
             /\ opened'.raised = "ThicketDBOldSchemaError"
             /\ file_meta' = file_meta
             /\ disk' = disk
             /\ saves' = saves
             /\ db_meta'.schema_version = file_meta.schema_version ) ]_vars

\* a document of version 1 that holds models was opened with create=True
C12_Witness ==
    /\ OpenedOn("document")
    /\ opened.create
    /\ opened.raised = "ThicketDBOldSchemaError"
    /\ file_meta.schema_version = SCHEMA_VERSION - 1
    /\ DOMAIN disk.models # {}

\* C13: opening a file that is not well-formed JSON fails: the failure is
\* logged, the constructor raises instead of handing a store to the caller,
\* and the in-memory database is left unset.
C13_CorruptOpenFails ==
    (OpenedOn("corrupt") \/ OpenedOn("undecodable")) =>
        /\ opened.log # << >>
        /\ opened.state = "raised"
        /\ ~db_meta.set

\* what the constructor does on such a file: it logs, leaves the database
\* unset and returns a store
CorruptOpenReturnsUnsetStore ==
    OpenedOn("corrupt") =>
        /\ opened.log # << >>
        /\ opened.state = "open"
        /\ ~db_meta.set

\* C15: get_model returns the view of model name when name is given and in
\* the model table; otherwise, when filepath is given and some record has
\* it, the view of such a model; otherwise nothing. It never raises.
C15_GetModelResolves ==
    (g_result.asked /\ db_meta.set) =>
        LET name == g_result.name
            filepath == g_result.filepath
            byName == name # None /\ name[1] \in DOMAIN db_models
            byPath == /\ filepath # None
                      /\ \E n \in DOMAIN db_models :
                            db_models[n].filepath = filepath[1]
        IN  /\ g_result.raised = "none"
            /\ IF byName
               THEN /\ g_result.found
                    /\ g_result.view[1] =
                         DBModel(db_models, db_labels, self_locale, name[1])
               ELSE IF byPath
               THEN /\ g_result.found
                    /\ g_result.view[1].filepath = filepath[1]
                    /\ g_result.view[1].name \in DOMAIN db_models
                    /\ g_result.view[1] =
                         DBModel(db_models, db_labels, self_locale,
                                 g_result.view[1].name)
               ELSE ~g_result.found

\* the same, for every call whose name is not the empty string
GetModelResolvesNonEmptyName ==
    g_result.name # Some("") => C15_GetModelResolves

\* the names an enumeration holds, in its order
ItemNames(it) == [i \in 1..Len(it.items) |-> it.items[i].name]

\* one enumeration: every model once, names strictly ascending, and the
\* caller has received the items before the cursor, all of them at the end
EnumerationOK(it) ==
    LET names == ItemNames(it)
    IN  /\ \A i, j \in 1..Len(names) : i < j => str_lt(names[i], names[j])
        /\ {names[i] : i \in 1..Len(names)} = DOMAIN db_models
        /\ \A i \in 1..Len(names) :
              it.items[i] = DBModel(db_models, db_labels, self_locale, names[i])
        /\ it.yielded = SubSeq(it.items, 1, it.index)
        /\ it.stopped => it.yielded = it.items

\* C16: every enumeration yields each model exactly once in name-ascending
\* order whatever the insertion order; two enumerations hold the same
\* sequence; advancing one enumeration leaves every other one where it was.
C16_EnumerationSortedIndependent ==
    /\ [](\A k \in 1..Len(iters) :
             /\ EnumerationOK(iters[k])
             /\ \A j \in 1..Len(iters) : iters[j].items = iters[k].items)
    /\ [][\A k \in 1..Len(iters) :
             iters'[k] # iters[k] =>
                 \A j \in (1..Len(iters)) \ {k} : iters'[j] = iters[j]]_vars

\* models inserted as b, ab, B: one enumeration has run to its end and
\* yielded B first, a second one has yielded one item
C16_Witness ==
    /\ db_order = << "b", "ab", "B" >>
    /\ Len(iters) >= 2
    /\ iters[1].stopped
    /\ ItemNames([items |-> iters[1].yielded]) = << "B", "ab", "b" >>
    /\ iters[2].index = 1

----------------------------------------------------------------------------
(* More properties of the build and of the views *)

\* C21: the coordinator waits on a job only when the number of in-flight
\* jobs equals N or no pending file remains; never while a file is pending
\* and fewer than N jobs are in flight.
C21_WaitsOnlyAtCapOrDrain ==
    pc = "communicate" =>
        \/ InFlight = num_jobs
        \/ model_files = << >>

\* the coordinator waits below the cap to drain the last jobs, after it has
\* waited at the cap before
C21_Witness ==
    /\ pc = "communicate"
    /\ model_files = << >>
    /\ InFlight < num_jobs
    /\ Len(collected) >= 1

\* the coordinator waits at the cap with a file still pending
C21_WitnessAtCap ==
    /\ pc = "communicate"
    /\ model_files # << >>
    /\ InFlight = num_jobs
    /\ Len(collected) >= 1

\* the names of the Variant views of a view
VariantNames(view) == [i \in 1..Len(view.variants) |-> view.variants[i].name]

\* C22 as stated: the Variant views of a Model view are in ascending string
\* order of their names, whatever the order of the stored record.
C22_VariantsByName ==
    g_result.found =>
        LET names == VariantNames(g_result.view[1])
        IN  \A i, j \in 1..Len(names) : i < j => str_lt(names[i], names[j])

\* C22: the Variant views of a Model view are in the order in which the
\* variants appear in the stored model record, one view per variant.
C22_VariantsInRecordOrder ==
    g_result.found =>
        LET view == g_result.view[1]
            m_rec == db_models[view.name]
        IN  /\ VariantNames(view) = m_rec.variants.order
            /\ \A i \in 1..Len(view.variants) :
                  view.variants[i] =
                      DBVariant(db_labels, self_locale, m_rec.variants.order[i],
                                m_rec.variants.recs[m_rec.variants.order[i]],
                                m_rec.preview)

\* a view of a model whose record lists young before old
C22_Witness ==
    /\ g_result.found
    /\ VariantNames(g_result.view[1]) = << "young", "old" >>
    /\ g_result.view[1].variants[1].preview = "m.png"

====
